---------------------------- MODULE Spec2Model ----------------------------
(***************************************************************************)
(* Membership and task authorization model of the taskflow Django project. *)
(*                                                                         *)
(* The state is the content of the relational tables the views read and    *)
(* write (Project, ProjectMember, Task, Comment, Attachment, Notification, *)
(* User) plus the request/response pair of the last handled request.       *)
(* Every action is one view function, taken from its first line to its     *)
(* response, or the deletion of a user with its on_delete rules.  The      *)
(* tables start in a state the registered admin site (projects/admin.py)   *)
(* can have produced: one project with member rows that satisfy the        *)
(* unique_together constraint, or no project at all.  Routing is taken as  *)
(* wired: every view can be requested and every redirect target resolves,  *)
(* so a response is named after the branch of the view that issues it.     *)
(*                                                                         *)
(* Specifications: Spec (membership views), SpecTasks (task forms),        *)
(* SpecTeam (task views of a changing team), SpecViews (comments,          *)
(* attachments, read-only views), SpecCascade (deletions), SpecProjects    *)
(* (project_update, project_delete), SpecUsers (user deletion), SpecRace   *)
(* (remove_member requests side by side), SpecFiles (attachment            *)
(* metadata), SpecOverdue (Task.is_overdue), SpecNav (task navigation).    *)
(***************************************************************************)
EXTENDS Integers, FiniteSets, Sequences, TLC

VARIABLES projects, members, tasks, nextProjectId, nextTaskId, last,
          users, comments, attachments, notifications,
          nextCommentId, nextAttachmentId, inflight

\* The User, Comment, Attachment and Notification tables and their keys,
\* and the requests that are between their reads and their write.
others == <<users, comments, attachments, notifications,
            nextCommentId, nextAttachmentId, inflight>>

vars == <<projects, members, tasks, nextProjectId, nextTaskId, last, others>>

(* ------------------------------ bounds --------------------------------- *)

\* Largest project id the auto-increment key hands out in the model.
MaxProjects == 1

\* Largest task id the auto-increment key hands out in the model.
MaxTasks == 1

\* Largest comment id and largest attachment id handed out in the model.
MaxComments == 1

MaxAttachments == 1

\* Largest attachment id handed out where two uploads are followed.
MaxFiles == 2

\* Last day number of the calendar the overdue test is driven with.
MaxDay == 4

(* ------------------------- program constants --------------------------- *)

\* Project.title = CharField(max_length=100)
MaxTitleLen == 100

\* The authenticated users (django.contrib.auth User rows).
Users == {"u1", "u2", "u3"}

\* ProjectMember.role choices.
Roles == {"admin", "manager", "member"}

\* Project.status choices.
ProjectStatuses == {"active", "archived"}

\* Task.status choices.
TaskStatuses == {"todo", "in_progress", "review", "done"}

\* request.method values the views distinguish.
Methods == {"GET", "POST"}

\* Placeholder for a request field the handled view does not take.
NA == "-"

\* Task.assigned_to = NULL
NoUser == "null"

ProjectIds == 1..MaxProjects

TaskIds == 1..MaxTasks

AttachmentIds == 1..MaxAttachments

(* --------------------------- ORM queries ------------------------------- *)

\* ProjectMember.objects.filter(user=u, project=p) over a table `rows`.
MemberRows(rows, u, p) == {m \in rows : m.user = u /\ m.project = p}

\* project.members.all(): the users reached through ProjectMember.
project_members(rows, p) == {m.user : m \in {r \in rows : r.project = p}}

\* ProjectMember.objects.filter(project=p, role='admin').count()
admin_count(rows, p) ==
    Cardinality({m \in rows : m.project = p /\ m.role = "admin"})

\* ProjectMember.objects.get(user=u, project=p).role when the row exists.
role_of(rows, u, p) == (CHOOSE m \in MemberRows(rows, u, p) : TRUE).role

\* The admin gate mutated: managers pass it as well.
admin_gate_managers_pass(projs, rows, u, p) ==
    IF p \notin DOMAIN projs THEN "NotFound"
    ELSE IF MemberRows(rows, u, p) = {} THEN "NoAccess"
    ELSE IF role_of(rows, u, p) \notin {"admin", "manager"} THEN "AdminOnly"
    ELSE "ok"

\* The admin gate every member-management view starts with:
\* 404 for an unknown project, 403 for a non-member, 403 for a non-admin.
admin_gate(projs, rows, u, p) ==
    IF p \notin DOMAIN projs THEN "NotFound"
    ELSE IF MemberRows(rows, u, p) = {} THEN "NoAccess"
    ELSE IF role_of(rows, u, p) # "admin" THEN "AdminOnly"
    ELSE "ok"

\* The tables as one value.
Tables(projs, rows, tsks) ==
    [projects |-> projs, members |-> rows, tasks |-> tsks,
     users |-> users, comments |-> comments, attachments |-> attachments,
     notifications |-> notifications]

\* The request handled last, its response, and the tables it started from.
Response(op, u, p, target, arg, method, result) ==
    [op |-> op, user |-> u, project |-> p, target |-> target,
     arg |-> arg, method |-> method, result |-> result,
     before |-> Tables(projects, members, tasks)]

(* ------------------------------- Init ---------------------------------- *)

\* Every user exists; no comment, attachment or notification yet.
NoTaskRows ==
    /\ users = Users
    /\ comments = << >>
    /\ attachments = << >>
    /\ notifications = {}
    /\ nextCommentId = 1
    /\ nextAttachmentId = 1
    /\ inflight = {}

\* Member tables of project 1 satisfying unique_together = ('user', 'project'):
\* u1 is an admin, u2 and u3 hold any role or none.
SeedMemberTables ==
    {{[user |-> u, project |-> 1, role |-> f[u]] : u \in {v \in Users : f[v] # NA}} :
        f \in {g \in [Users -> Roles \cup {NA}] : g["u1"] = "admin"}}

\* Either empty tables, or project 1 with one of the seed member tables.
InitTables ==
    {[projects |-> << >>, members |-> {}, nextProjectId |-> 1]} \cup
    {[projects |-> (1 :> [status |-> "active"]), members |-> t,
      nextProjectId |-> 2] : t \in SeedMemberTables}

Init ==
    /\ \E t \in InitTables :
          /\ projects = t.projects
          /\ members = t.members
          /\ nextProjectId = t.nextProjectId
    /\ tasks = << >>
    /\ nextTaskId = 1
    /\ NoTaskRows
    /\ last = [op |-> "init", user |-> NA, project |-> 0, target |-> NA,
               arg |-> NA, method |-> NA, result |-> NA,
               before |-> Tables(projects, members, tasks)]

(* --------------------------- remove_member ----------------------------- *)

\* Guards of remove_member mutated: both checks forgotten.
remove_member_check_unguarded(rows, p, member_to_remove, u) == "ok"

\* Guards of remove_member mutated: the admin count compared with < instead
\* of <=.
remove_member_check_off_by_one(rows, p, member_to_remove, u) ==
    IF member_to_remove.role = "admin" /\ admin_count(rows, p) < 1
    THEN "LastAdminViolation"
    ELSE IF member_to_remove.user = u
    THEN "SelfRemovalViolation"
    ELSE "ok"

\* Guards of remove_member mutated: the self-removal check forgotten.
remove_member_check_no_self(rows, p, member_to_remove, u) ==
    IF member_to_remove.role = "admin" /\ admin_count(rows, p) <= 1
    THEN "LastAdminViolation"
    ELSE "ok"

\* The two guards between the lookup of the row and its deletion.
remove_member_check(rows, p, member_to_remove, u) ==
    IF member_to_remove.role = "admin" /\ admin_count(rows, p) <= 1
    THEN "LastAdminViolation"
    ELSE IF member_to_remove.user = u
    THEN "SelfRemovalViolation"
    ELSE "ok"

\* Response of remove_member(request, project_pk, user_pk).
remove_member_result(projs, rows, u, p, user_pk, method) ==
    IF admin_gate(projs, rows, u, p) # "ok"
    THEN admin_gate(projs, rows, u, p)
    ELSE IF MemberRows(rows, user_pk, p) = {} THEN "NotFound"
    ELSE LET member_to_remove == CHOOSE m \in MemberRows(rows, user_pk, p) : TRUE
             check == remove_member_check(rows, p, member_to_remove, u)
         IN  IF check # "ok" THEN check
             ELSE IF method = "POST" THEN "Removed"
             ELSE "ConfirmPage"

RemoveMember(u, p, user_pk, method) ==
    LET result == remove_member_result(projects, members, u, p, user_pk, method)
    IN  /\ members' = IF result = "Removed"
                      THEN members \ MemberRows(members, user_pk, p)
                      ELSE members
        /\ last' = Response("remove_member", u, p, user_pk, NA, method, result)
        /\ UNCHANGED <<projects, tasks, nextProjectId, nextTaskId, others>>

\* remove_member as the server runs it next to other requests: the view
\* holds no transaction and no row lock, so its queries (the admin test, the
\* lookup, the admin count) and its DELETE are separate statements.  This
\* step is the view up to member_to_remove.delete(): a request that does not
\* reach the delete is answered here.
RemoveMemberBegin(u, p, user_pk, method) ==
    LET result == remove_member_result(projects, members, u, p, user_pk, method)
    IN  /\ \A q \in inflight : q.user # u
        /\ IF result = "Removed"
           THEN /\ inflight' = inflight \cup
                                  {[user |-> u, project |-> p, target |-> user_pk]}
                /\ UNCHANGED last
           ELSE /\ last' = Response("remove_member", u, p, user_pk, NA, method,
                                    result)
                /\ UNCHANGED inflight
        /\ UNCHANGED <<projects, members, tasks, nextProjectId, nextTaskId,
                       users, comments, attachments, notifications,
                       nextCommentId, nextAttachmentId>>

\* member_to_remove.delete() of a request in flight, and its response: the
\* DELETE names the row by its key and removes nothing if the row is gone.
RemoveMemberFinish(q) ==
    /\ q \in inflight
    /\ inflight' = inflight \ {q}
    /\ members' = members \ MemberRows(members, q.target, q.project)
    /\ last' = Response("remove_member", q.user, q.project, q.target, NA,
                        "POST", "Removed")
    /\ UNCHANGED <<projects, tasks, nextProjectId, nextTaskId,
                   users, comments, attachments, notifications,
                   nextCommentId, nextAttachmentId>>

(* --------------------------- project_create --------------------------- *)

\* ProjectForm.is_valid(): title 1..max_length characters, description
\* required, status one of the model's choices.
ProjectForm_is_valid(data) ==
    /\ data.titleLen >= 1
    /\ data.titleLen <= MaxTitleLen
    /\ data.descLen >= 1
    /\ data.status \in ProjectStatuses

\* The form posts the view is driven with: valid ones and one for each way
\* the form can be invalid.  A GET carries no form.
ProjectFormData(method) ==
    IF method = "GET"
    THEN {[status |-> NA, titleLen |-> 0, descLen |-> 0]}
    ELSE {[status |-> "active", titleLen |-> 1, descLen |-> 1],
          [status |-> "archived", titleLen |-> 1, descLen |-> 1],
          [status |-> "active", titleLen |-> MaxTitleLen, descLen |-> 1],
          [status |-> "active", titleLen |-> 0, descLen |-> 1],
          [status |-> "active", titleLen |-> MaxTitleLen + 1, descLen |-> 1],
          [status |-> "active", titleLen |-> 1, descLen |-> 0],
          [status |-> "bogus", titleLen |-> 1, descLen |-> 1]}

\* The atomic block mutated: the project row survives a failed member insert.
atomic_create_no_rollback(projs, rows, pid, data, u, memberWriteFails) ==
    IF memberWriteFails
    THEN [projects |-> projs @@ (pid :> [status |-> data.status]),
          members |-> rows, ok |-> FALSE]
    ELSE [projects |-> projs @@ (pid :> [status |-> data.status]),
          members |-> rows \cup {[user |-> u, project |-> pid, role |-> "admin"]},
          ok |-> TRUE]

\* The atomic block mutated: the creator is added with the default-looking
\* role instead of admin.
atomic_create_member_role(projs, rows, pid, data, u, memberWriteFails) ==
    IF memberWriteFails
    THEN [projects |-> projs, members |-> rows, ok |-> FALSE]
    ELSE [projects |-> projs @@ (pid :> [status |-> data.status]),
          members |-> rows \cup {[user |-> u, project |-> pid, role |-> "member"]},
          ok |-> TRUE]

\* `with transaction.atomic():` form.save() then ProjectMember.objects.create.
\* An exception raised by the second write leaves the block and rolls the
\* first write back.
atomic_create(projs, rows, pid, data, u, memberWriteFails) ==
    LET projs1 == projs @@ (pid :> [status |-> data.status])
        rows1 == rows \cup {[user |-> u, project |-> pid, role |-> "admin"]}
    IN  IF memberWriteFails
        THEN [projects |-> projs, members |-> rows, ok |-> FALSE]
        ELSE [projects |-> projs1, members |-> rows1, ok |-> TRUE]

ProjectCreate(u, method, data, memberWriteFails) ==
    IF method = "POST" /\ ProjectForm_is_valid(data)
    THEN /\ nextProjectId <= MaxProjects
         /\ LET tx == atomic_create(projects, members, nextProjectId, data, u,
                                    memberWriteFails)
            IN  /\ projects' = tx.projects
                /\ members' = tx.members
                /\ nextProjectId' = IF tx.ok THEN nextProjectId + 1
                                    ELSE nextProjectId
                /\ last' = Response("project_create", u,
                                    IF tx.ok THEN nextProjectId ELSE 0, NA,
                                    data.status, method,
                                    IF tx.ok THEN "Created" ELSE "ServerError")
         /\ UNCHANGED <<tasks, nextTaskId, others>>
    ELSE /\ last' = Response("project_create", u, 0, NA, data.status, method,
                             IF method = "POST" THEN "FormInvalid" ELSE "FormPage")
         /\ UNCHANGED <<projects, members, tasks, nextProjectId, nextTaskId, others>>

(* ------------------ ProjectMemberForm / manage_members ------------------ *)

\* ProjectMemberForm(...): __init__ pops `project` and then calls
\* `super.__init__(*args, **kwargs)`, the unbound slot of the builtin type
\* `super`, which raises TypeError for every argument list the views pass.
\* The queryset restriction after it is never reached.
ProjectMemberForm(rows, data, p) ==
    [error |-> "TypeError",
     user_queryset |-> IF p # 0 THEN Users \ project_members(rows, p) ELSE Users]

\* ModelForm.is_valid() for fields ['user', 'role'].
ProjectMemberForm_is_valid(form, data) ==
    /\ data.user \in form.user_queryset
    /\ data.role \in Roles

\* The member-form posts manage_members is driven with.  A GET carries no form.
MemberFormData(method) ==
    IF method = "GET"
    THEN {[user |-> NA, role |-> NA]}
    ELSE [user : Users, role : Roles] \cup {[user |-> "u1", role |-> "bogus"]}

\* The role-form posts update_member_role is driven with: the rendered form
\* posts the instance's user back with the chosen role.
RoleFormData(method, user_pk) ==
    IF method = "GET"
    THEN {[user |-> NA, role |-> NA]}
    ELSE [user : {user_pk}, role : Roles \cup {"bogus"}]

\* Response of manage_members(request, pk) and the table it leaves.
manage_members_run(projs, rows, u, p, method, data) ==
    IF admin_gate(projs, rows, u, p) # "ok"
    THEN [result |-> admin_gate(projs, rows, u, p), members |-> rows]
    ELSE LET form == ProjectMemberForm(rows, data, p)
         IN  IF form.error # "none"
             THEN [result |-> form.error, members |-> rows]
             ELSE IF method # "POST"
             THEN [result |-> "FormPage", members |-> rows]
             ELSE IF ~ProjectMemberForm_is_valid(form, data)
             THEN [result |-> "FormInvalid", members |-> rows]
             ELSE IF MemberRows(rows, data.user, p) # {}
             THEN [result |-> "IntegrityError", members |-> rows]
             ELSE [result |-> "Added",
                   members |-> rows \cup {[user |-> data.user, project |-> p,
                                           role |-> data.role]}]

ManageMembers(u, p, method, data) ==
    LET run == manage_members_run(projects, members, u, p, method, data)
    IN  /\ members' = run.members
        /\ last' = Response("add_member", u, p, data.user, data.role, method,
                            run.result)
        /\ UNCHANGED <<projects, tasks, nextProjectId, nextTaskId, others>>

(* ------------------------- update_member_role -------------------------- *)

\* Response of update_member_role(request, project_pk, user_pk) and the
\* table it leaves.  form.is_valid() of a ModelForm bound to an instance
\* writes the cleaned fields into that instance, so the role the last-admin
\* test reads from member_to_update is the posted one.
update_member_role_run(projs, rows, u, p, user_pk, method, data) ==
    IF admin_gate(projs, rows, u, p) # "ok"
    THEN [result |-> admin_gate(projs, rows, u, p), members |-> rows]
    ELSE IF MemberRows(rows, user_pk, p) = {}
    THEN [result |-> "NotFound", members |-> rows]
    ELSE LET member_to_update == CHOOSE m \in MemberRows(rows, user_pk, p) : TRUE
             form == ProjectMemberForm(rows, data, 0)
             cleaned == [user |-> data.user, project |-> p, role |-> data.role]
         IN  IF form.error # "none"
             THEN [result |-> form.error, members |-> rows]
             ELSE IF method # "POST"
             THEN [result |-> "FormPage", members |-> rows]
             ELSE IF ~ProjectMemberForm_is_valid(form, data)
             THEN [result |-> "FormInvalid", members |-> rows]
             ELSE IF /\ cleaned.role = "admin"
                     /\ data.role # "admin"
                     /\ admin_count(rows, p) <= 1
             THEN [result |-> "LastAdminViolation", members |-> rows]
             ELSE IF /\ data.user # user_pk
                     /\ MemberRows(rows, data.user, p) # {}
             THEN [result |-> "IntegrityError", members |-> rows]
             ELSE [result |-> "Updated",
                   members |-> (rows \ {member_to_update}) \cup {cleaned}]

UpdateMemberRole(u, p, user_pk, method, data) ==
    LET run == update_member_role_run(projects, members, u, p, user_pk,
                                      method, data)
    IN  /\ members' = run.members
        /\ last' = Response("update_role", u, p, user_pk, data.role, method,
                            run.result)
        /\ UNCHANGED <<projects, tasks, nextProjectId, nextTaskId, others>>

(* ------------------------------ TaskForm ------------------------------- *)

\* TaskForm(..., project_id=p): the assigned_to choices are the project's
\* members.
TaskForm_assignees(rows, p) == project_members(rows, p)

\* TaskForm.is_valid(): title 1..max_length characters, status one of the
\* model's choices, assigned_to empty or one of the choices.
TaskForm_is_valid(rows, p, data) ==
    /\ data.titleLen >= 1
    /\ data.titleLen <= MaxTitleLen
    /\ data.status \in TaskStatuses
    /\ data.assigned_to \in TaskForm_assignees(rows, p) \cup {NoUser}

\* The task-form posts the views are driven with.  A GET carries no form.
\* `project` is a posted key the form has no field for (0: not posted).
TaskFormData(method) ==
    IF method = "GET"
    THEN {[project |-> 0, status |-> NA, titleLen |-> 0, assigned_to |-> NoUser]}
    ELSE [project : {0}, status : {"todo"}, titleLen : {1},
          assigned_to : Users \cup {NoUser}]
         \cup {[project |-> 0, status |-> "done", titleLen |-> 1,
                assigned_to |-> NoUser],
               [project |-> 0, status |-> "bogus", titleLen |-> 1,
                assigned_to |-> NoUser],
               [project |-> 0, status |-> "todo", titleLen |-> 0,
                assigned_to |-> NoUser],
               [project |-> 2, status |-> "todo", titleLen |-> 1,
                assigned_to |-> NoUser]}

(* ----------------------------- task_create ----------------------------- *)

\* task_create mutated: the posted assignee is saved as it is, without the
\* default to the requester.
task_create_run_no_default(projs, rows, u, p, method, data) ==
    IF p \notin DOMAIN projs
    THEN [result |-> "NotFound", save |-> FALSE, task |-> NA]
    ELSE IF u \notin project_members(rows, p)
    THEN [result |-> "NoAccess", save |-> FALSE, task |-> NA]
    ELSE IF method # "POST"
    THEN [result |-> "FormPage", save |-> FALSE, task |-> NA]
    ELSE IF ~TaskForm_is_valid(rows, p, data)
    THEN [result |-> "FormInvalid", save |-> FALSE, task |-> NA]
    ELSE [result |-> "Created", save |-> TRUE,
          task |-> [project |-> p,
                    created_by |-> u,
                    assigned_to |-> data.assigned_to,
                    status |-> data.status]]

\* Response of task_create(request, project_id) and the task it saves.
task_create_run(projs, rows, u, p, method, data) ==
    IF p \notin DOMAIN projs
    THEN [result |-> "NotFound", save |-> FALSE, task |-> NA]
    ELSE IF u \notin project_members(rows, p)
    THEN [result |-> "NoAccess", save |-> FALSE, task |-> NA]
    ELSE IF method # "POST"
    THEN [result |-> "FormPage", save |-> FALSE, task |-> NA]
    ELSE IF ~TaskForm_is_valid(rows, p, data)
    THEN [result |-> "FormInvalid", save |-> FALSE, task |-> NA]
    ELSE [result |-> "Created", save |-> TRUE,
          task |-> [project |-> p,
                    created_by |-> u,
                    assigned_to |-> IF data.assigned_to = NoUser THEN u
                                    ELSE data.assigned_to,
                    status |-> data.status]]

TaskCreate(u, p, method, data) ==
    LET run == task_create_run(projects, members, u, p, method, data)
    IN  /\ run.save => nextTaskId <= MaxTasks
        /\ tasks' = IF run.save THEN tasks @@ (nextTaskId :> run.task) ELSE tasks
        /\ nextTaskId' = IF run.save THEN nextTaskId + 1 ELSE nextTaskId
        /\ last' = Response("task_create", u, p,
                            IF run.save THEN nextTaskId ELSE 0,
                            data, method, run.result)
        /\ UNCHANGED <<projects, members, nextProjectId, others>>

(* ----------------------------- task_update ----------------------------- *)

\* The membership test of the task views mutated: every user is let in.
task_member_gate_any_user(rows, task, u) == TRUE

\* `request.user not in project.members.all()` of the views that take a task.
task_member_gate(rows, task, u) == u \in project_members(rows, task.project)

\* The edit test mutated: the assignee is not let in.
can_edit_task_no_assignee(rows, task, u) ==
    \/ role_of(rows, u, task.project) \in {"admin", "manager"}
    \/ u = task.created_by

\* The edit test mutated: every member may edit.
can_edit_task_any_member(rows, task, u) == TRUE

\* The edit test of task_update for a member u of the task's project: not
\* (role not in [admin, manager] and u != created_by and u != assigned_to).
can_edit_task(rows, task, u) ==
    ~ (/\ role_of(rows, u, task.project) \notin {"admin", "manager"}
       /\ u # task.created_by
       /\ u # task.assigned_to)

\* task_update mutated: a posted project is written to the task.
task_update_run_moves_project(rows, tsks, u, task_id, method, data) ==
    IF task_id \notin DOMAIN tsks
    THEN [result |-> "NotFound", tasks |-> tsks]
    ELSE LET task == tsks[task_id]
         IN  IF ~task_member_gate(rows, task, u)
             THEN [result |-> "NoAccess", tasks |-> tsks]
             ELSE IF MemberRows(rows, u, task.project) = {}
             THEN [result |-> "NoAccess", tasks |-> tsks]
             ELSE IF ~can_edit_task(rows, task, u)
             THEN [result |-> "NoPermission", tasks |-> tsks]
             ELSE IF method # "POST"
             THEN [result |-> "FormPage", tasks |-> tsks]
             ELSE IF ~TaskForm_is_valid(rows, task.project, data)
             THEN [result |-> "FormInvalid", tasks |-> tsks]
             ELSE [result |-> "Updated",
                   tasks |-> [tsks EXCEPT ![task_id] =
                                 [@ EXCEPT !.assigned_to = data.assigned_to,
                                           !.status = data.status,
                                           !.project = IF data.project = 0
                                                       THEN @ ELSE data.project]]]

\* Response of task_update(request, task_id) and the task table it leaves.
\* ProjectMember.DoesNotExist, raised where the requester has no row, is
\* answered 403 as well.
task_update_run(rows, tsks, u, task_id, method, data) ==
    IF task_id \notin DOMAIN tsks
    THEN [result |-> "NotFound", tasks |-> tsks]
    ELSE LET task == tsks[task_id]
         IN  IF ~task_member_gate(rows, task, u)
             THEN [result |-> "NoAccess", tasks |-> tsks]
             ELSE IF MemberRows(rows, u, task.project) = {}
             THEN [result |-> "NoAccess", tasks |-> tsks]
             ELSE IF ~can_edit_task(rows, task, u)
             THEN [result |-> "NoPermission", tasks |-> tsks]
             ELSE IF method # "POST"
             THEN [result |-> "FormPage", tasks |-> tsks]
             ELSE IF ~TaskForm_is_valid(rows, task.project, data)
             THEN [result |-> "FormInvalid", tasks |-> tsks]
             ELSE [result |-> "Updated",
                   tasks |-> [tsks EXCEPT ![task_id] =
                                 [@ EXCEPT !.assigned_to = data.assigned_to,
                                           !.status = data.status]]]

TaskUpdate(u, task_id, method, data) ==
    LET run == task_update_run(members, tasks, u, task_id, method, data)
    IN  /\ tasks' = run.tasks
        /\ last' = Response("task_update", u,
                            IF task_id \in DOMAIN tasks
                            THEN tasks[task_id].project ELSE 0,
                            task_id, data, method, run.result)
        /\ UNCHANGED <<projects, members, nextProjectId, nextTaskId, others>>

(* ----------------------------- task_delete ----------------------------- *)

\* The cascade mutated: the rows of deleted tasks are kept.
cascade_task_rows_none(rows, ids) == rows

\* on_delete=CASCADE of Comment.task and Attachment.task: the rows of a
\* table `rows` (keyed by id) whose task is not among the deleted `ids`.
cascade_task_rows(rows, ids) ==
    [k \in {j \in DOMAIN rows : rows[j].task \notin ids} |-> rows[k]]

\* The task table without the tasks `ids`.
without_tasks(tsks, ids) == [k \in DOMAIN tsks \ ids |-> tsks[k]]

\* The delete test mutated: the role list names the manager only.
can_delete_task_manager_only(rows, task, u) ==
    ~ (/\ role_of(rows, u, task.project) \notin {"manager"}
       /\ u # task.created_by)

\* The delete test mutated: the assignee is let in as in task_update.
can_delete_task_like_edit(rows, task, u) ==
    ~ (/\ role_of(rows, u, task.project) \notin {"admin", "manager"}
       /\ u # task.created_by
       /\ u # task.assigned_to)

\* The delete test of task_delete for a member u of the task's project: not
\* (role not in [admin, manager] and u != created_by).
can_delete_task(rows, task, u) ==
    ~ (/\ role_of(rows, u, task.project) \notin {"admin", "manager"}
       /\ u # task.created_by)

\* task_delete mutated: the task's creator is let through before the
\* membership test.
task_delete_result_creator_first(rows, tsks, u, task_id, method) ==
    IF task_id \notin DOMAIN tsks THEN "NotFound"
    ELSE IF u = tsks[task_id].created_by
    THEN (IF method = "POST" THEN "Deleted" ELSE "ConfirmPage")
    ELSE IF ~task_member_gate(rows, tsks[task_id], u) THEN "NoAccess"
    ELSE IF MemberRows(rows, u, tsks[task_id].project) = {} THEN "NoAccess"
    ELSE IF ~can_delete_task(rows, tsks[task_id], u) THEN "NoPermission"
    ELSE IF method = "POST" THEN "Deleted"
    ELSE "ConfirmPage"

\* Response of task_delete(request, task_id).  ProjectMember.DoesNotExist,
\* raised where the requester has no row, is answered 403 as well.
task_delete_result(rows, tsks, u, task_id, method) ==
    IF task_id \notin DOMAIN tsks THEN "NotFound"
    ELSE IF ~task_member_gate(rows, tsks[task_id], u) THEN "NoAccess"
    ELSE IF MemberRows(rows, u, tsks[task_id].project) = {} THEN "NoAccess"
    ELSE IF ~can_delete_task(rows, tsks[task_id], u) THEN "NoPermission"
    ELSE IF method = "POST" THEN "Deleted"
    ELSE "ConfirmPage"

TaskDelete(u, task_id, method) ==
    LET result == task_delete_result(members, tasks, u, task_id, method)
        ids == IF result = "Deleted" THEN {task_id} ELSE {}
    IN  /\ tasks' = without_tasks(tasks, ids)
        /\ comments' = cascade_task_rows(comments, ids)
        /\ attachments' = cascade_task_rows(attachments, ids)
        /\ last' = Response("task_delete", u,
                            IF task_id \in DOMAIN tasks
                            THEN tasks[task_id].project ELSE 0,
                            task_id, NA, method, result)
        /\ UNCHANGED <<projects, members, nextProjectId, nextTaskId, users,
                       notifications, nextCommentId, nextAttachmentId, inflight>>

(* ---------------------- project_update / project_delete ---------------- *)

\* Response of project_update(request, pk) and the project table it leaves:
\* the admin test, then on a POST the bound ProjectForm saved onto the
\* instance if it is valid.
project_update_run(projs, rows, u, p, method, data) ==
    LET gate == admin_gate(projs, rows, u, p)
    IN  IF gate # "ok" THEN [result |-> gate, projects |-> projs]
        ELSE IF method # "POST" THEN [result |-> "FormPage", projects |-> projs]
        ELSE IF ~ProjectForm_is_valid(data)
        THEN [result |-> "FormInvalid", projects |-> projs]
        ELSE [result |-> "Updated",
              projects |-> [projs EXCEPT ![p] = [@ EXCEPT !.status = data.status]]]

ProjectUpdate(u, p, method, data) ==
    LET run == project_update_run(projects, members, u, p, method, data)
    IN  /\ projects' = run.projects
        /\ last' = Response("project_update", u, p, NA, data, method, run.result)
        /\ UNCHANGED <<members, tasks, nextProjectId, nextTaskId, others>>

\* The ids of the tasks of project p.
project_tasks(tsks, p) == {t \in DOMAIN tsks : tsks[t].project = p}

\* on_delete=CASCADE of ProjectMember.project: the member rows left when
\* project p is deleted.
cascade_project_members(rows, p) == {r \in rows : r.project # p}

\* Response of project_delete(request, pk): the admin test, then a POST
\* deletes the project, any other method renders the confirmation page.
project_delete_result(projs, rows, u, p, method) ==
    LET gate == admin_gate(projs, rows, u, p)
    IN  IF gate # "ok" THEN gate
        ELSE IF method = "POST" THEN "Deleted"
        ELSE "ConfirmPage"

\* project.delete() with its cascades: member rows and tasks of the project,
\* comments and attachments of those tasks.
ProjectDelete(u, p, method) ==
    LET result == project_delete_result(projects, members, u, p, method)
        ids == IF result = "Deleted" THEN project_tasks(tasks, p) ELSE {}
    IN  /\ projects' = IF result = "Deleted"
                       THEN [k \in DOMAIN projects \ {p} |-> projects[k]]
                       ELSE projects
        /\ members' = IF result = "Deleted"
                      THEN cascade_project_members(members, p) ELSE members
        /\ tasks' = without_tasks(tasks, ids)
        /\ comments' = cascade_task_rows(comments, ids)
        /\ attachments' = cascade_task_rows(attachments, ids)
        /\ last' = Response("project_delete", u, p, NA, NA, method, result)
        /\ UNCHANGED <<nextProjectId, nextTaskId, users, notifications,
                       nextCommentId, nextAttachmentId, inflight>>

(* ------------------- project_list / project_detail / task_detail -------- *)

\* Project.objects.filter(members=request.user).
project_list_run(projs, rows, u) ==
    {p \in DOMAIN projs : u \in project_members(rows, p)}

ProjectList(u) ==
    /\ last' = Response("project_list", u, 0, NA,
                        project_list_run(projects, members, u), "GET", "Listed")
    /\ UNCHANGED <<projects, members, tasks, nextProjectId, nextTaskId, others>>

\* Response of project_detail(request, pk).  The role lookup after the
\* membership test raises where the requester has no row.
project_detail_result(projs, rows, u, p) ==
    IF p \notin DOMAIN projs THEN "NotFound"
    ELSE IF u \notin project_members(rows, p) THEN "NoAccess"
    ELSE IF MemberRows(rows, u, p) = {} THEN "ServerError"
    ELSE "Page"

ProjectDetail(u, p) ==
    /\ last' = Response("project_detail", u, p, NA, NA, "GET",
                        project_detail_result(projects, members, u, p))
    /\ UNCHANGED <<projects, members, tasks, nextProjectId, nextTaskId, others>>

\* Response of task_detail(request, task_id).  The role lookup after the
\* membership test raises where the requester has no row.
task_detail_result(rows, tsks, u, task_id) ==
    IF task_id \notin DOMAIN tsks THEN "NotFound"
    ELSE IF ~task_member_gate(rows, tsks[task_id], u) THEN "NoAccess"
    ELSE IF MemberRows(rows, u, tsks[task_id].project) = {} THEN "ServerError"
    ELSE "Page"

\* `.first()` of an empty queryset: None.
NoTask == 0

\* The navigation mutated: the tasks below are ordered by 'id', not '-id'.
previous_task_ascending(tsks, task_id) ==
    LET below == {t \in DOMAIN tsks : /\ tsks[t].project = tsks[task_id].project
                                      /\ t < task_id}
    IN  IF below = {} THEN NoTask
        ELSE CHOOSE t \in below : \A o \in below : t <= o

\* Task.objects.filter(project=project, id__lt=task.id).order_by('-id').first()
previous_task(tsks, task_id) ==
    LET below == {t \in DOMAIN tsks : /\ tsks[t].project = tsks[task_id].project
                                      /\ t < task_id}
    IN  IF below = {} THEN NoTask
        ELSE CHOOSE t \in below : \A o \in below : o <= t

\* Task.objects.filter(project=project, id__gt=task.id).order_by('id').first()
next_task(tsks, task_id) ==
    LET above == {t \in DOMAIN tsks : /\ tsks[t].project = tsks[task_id].project
                                      /\ t > task_id}
    IN  IF above = {} THEN NoTask
        ELSE CHOOSE t \in above : \A o \in above : t <= o

\* The navigation entries of the context task_detail renders.
task_detail_context(rows, tsks, u, task_id) ==
    IF task_detail_result(rows, tsks, u, task_id) = "Page"
    THEN [previous_task |-> previous_task(tsks, task_id),
          next_task |-> next_task(tsks, task_id)]
    ELSE NA

TaskDetail(u, task_id) ==
    /\ last' = Response("task_detail", u,
                        IF task_id \in DOMAIN tasks
                        THEN tasks[task_id].project ELSE 0,
                        task_id,
                        task_detail_context(members, tasks, u, task_id), "GET",
                        task_detail_result(members, tasks, u, task_id))
    /\ UNCHANGED <<projects, members, tasks, nextProjectId, nextTaskId, others>>

(* ---------------------------- Task.is_overdue --------------------------- *)

\* Task.due_date = NULL (dates are day numbers from 0 on).
NoDate == -1

\* The overdue test mutated: >= instead of >.
is_overdue_inclusive(task, today) ==
    IF task.due_date # NoDate /\ today >= task.due_date THEN TRUE ELSE FALSE

\* Task.is_overdue() on a day `today` (what date.today() answers): dates are
\* day numbers, and every date object is truthy.
is_overdue(task, today) ==
    IF task.due_date # NoDate /\ today > task.due_date THEN TRUE ELSE FALSE

\* str() of a Python bool.
str_bool(b) == IF b THEN "True" ELSE "False"

\* A caller evaluating task.is_overdue() for a stored task.
TaskIsOverdue(task_id, today) ==
    /\ task_id \in DOMAIN tasks
    /\ last' = Response("is_overdue", NA, tasks[task_id].project, task_id,
                        today, "GET", str_bool(is_overdue(tasks[task_id], today)))
    /\ UNCHANGED <<projects, members, tasks, nextProjectId, nextTaskId, others>>

(* ----------------------------- add_comment ------------------------------ *)

\* CommentForm.is_valid() for fields ['content']: the text is required.
CommentForm_is_valid(data) == data.contentLen >= 1

\* The comment-form posts add_comment is driven with.  A GET carries no form.
CommentFormData(method) ==
    IF method = "GET" THEN {[contentLen |-> 0]}
    ELSE {[contentLen |-> 0], [contentLen |-> 1]}

\* Response of add_comment(request, task_id) and the comment it saves.
add_comment_run(rows, tsks, u, task_id, method, data) ==
    IF task_id \notin DOMAIN tsks
    THEN [result |-> "NotFound", save |-> FALSE, comment |-> NA]
    ELSE IF ~task_member_gate(rows, tsks[task_id], u)
    THEN [result |-> "NoAccess", save |-> FALSE, comment |-> NA]
    ELSE IF method # "POST"
    THEN [result |-> "FormPage", save |-> FALSE, comment |-> NA]
    ELSE IF ~CommentForm_is_valid(data)
    THEN [result |-> "FormInvalid", save |-> FALSE, comment |-> NA]
    ELSE [result |-> "Added", save |-> TRUE,
          comment |-> [task |-> task_id, author |-> u]]

AddComment(u, task_id, method, data) ==
    LET run == add_comment_run(members, tasks, u, task_id, method, data)
    IN  /\ run.save => nextCommentId <= MaxComments
        /\ comments' = IF run.save
                       THEN comments @@ (nextCommentId :> run.comment)
                       ELSE comments
        /\ nextCommentId' = IF run.save THEN nextCommentId + 1
                            ELSE nextCommentId
        /\ last' = Response("add_comment", u,
                            IF task_id \in DOMAIN tasks
                            THEN tasks[task_id].project ELSE 0,
                            task_id, data, method, run.result)
        /\ UNCHANGED <<projects, members, tasks, nextProjectId, nextTaskId,
                       users, attachments, notifications, nextAttachmentId,
                       inflight>>

(* ---------------------------- add_attachment ---------------------------- *)

\* str.lower() on the name parts the uploads use.
lower(part) ==
    IF part = "PDF" THEN "pdf"
    ELSE IF part = "Gz" THEN "gz"
    ELSE part

\* The uploaded files add_attachment is driven with: the name as its parts
\* between dots, and the size in bytes.  NoFile: the post carries no file.
NoFile == [name |-> << >>, size |-> 0]

Uploads(method) ==
    IF method = "GET" THEN {NoFile}
    ELSE {NoFile,
          [name |-> <<"report", "PDF">>, size |-> 2],
          [name |-> <<"notes">>, size |-> 1],
          [name |-> <<"empty", "txt">>, size |-> 0]}

\* AttachmentForm.is_valid() for fields ['file']: a file is required and an
\* empty file is refused.
AttachmentForm_is_valid(file) == file # NoFile /\ file.size > 0

\* Attachment.save() mutated: the metadata is taken from the file on every
\* save.
Attachment_save_every_time(att, isNew) ==
    IF att.file # NoFile
    THEN [att EXCEPT !.file_name = att.file.name,
                     !.file_type = IF Len(att.file.name) > 1
                                   THEN lower(att.file.name[Len(att.file.name)])
                                   ELSE "unknown",
                     !.file_size = att.file.size]
    ELSE att

\* Attachment.save(): a new attachment with a file takes file_name from the
\* file's name, file_type from the lower-cased last part of the name if the
\* name has a dot and 'unknown' otherwise, and file_size from the file.
Attachment_save(att, isNew) ==
    IF isNew /\ att.file # NoFile
    THEN [att EXCEPT !.file_name = att.file.name,
                     !.file_type = IF Len(att.file.name) > 1
                                   THEN lower(att.file.name[Len(att.file.name)])
                                   ELSE "unknown",
                     !.file_size = att.file.size]
    ELSE att

\* Response of add_attachment(request, task_id) and the attachment it saves.
add_attachment_run(rows, tsks, u, task_id, method, file) ==
    IF task_id \notin DOMAIN tsks
    THEN [result |-> "NotFound", save |-> FALSE, attachment |-> NA]
    ELSE IF ~task_member_gate(rows, tsks[task_id], u)
    THEN [result |-> "NoAccess", save |-> FALSE, attachment |-> NA]
    ELSE IF method # "POST"
    THEN [result |-> "FormPage", save |-> FALSE, attachment |-> NA]
    ELSE IF ~AttachmentForm_is_valid(file)
    THEN [result |-> "FormInvalid", save |-> FALSE, attachment |-> NA]
    ELSE [result |-> "Added", save |-> TRUE,
          attachment |-> Attachment_save(
              [task |-> task_id, uploaded_by |-> u, file |-> file,
               file_name |-> << >>, file_type |-> "", file_size |-> 0], TRUE)]

\* add_attachment while the attachment ids handed out stay within maxId.
AddAttachmentUpTo(maxId, u, task_id, method, file) ==
    LET run == add_attachment_run(members, tasks, u, task_id, method, file)
    IN  /\ run.save => nextAttachmentId <= maxId
        /\ attachments' = IF run.save
                          THEN attachments @@ (nextAttachmentId :> run.attachment)
                          ELSE attachments
        /\ nextAttachmentId' = IF run.save THEN nextAttachmentId + 1
                               ELSE nextAttachmentId
        /\ last' = Response("add_attachment", u,
                            IF task_id \in DOMAIN tasks
                            THEN tasks[task_id].project ELSE 0,
                            task_id, file, method, run.result)
        /\ UNCHANGED <<projects, members, tasks, nextProjectId, nextTaskId,
                       users, comments, notifications, nextCommentId,
                       inflight>>

AddAttachment(u, task_id, method, file) ==
    AddAttachmentUpTo(MaxAttachments, u, task_id, method, file)

\* The attachment row of a task edited on the admin site's task page, where
\* `file` can be replaced and file_name, file_type and file_size are
\* read-only: the row is saved again with the new file.
ReplaceAttachmentFile(attachment_id, file) ==
    /\ attachment_id \in DOMAIN attachments
    /\ attachments' = [attachments EXCEPT ![attachment_id] =
                          Attachment_save([@ EXCEPT !.file = file], FALSE)]
    /\ last' = Response("attachment_resave", NA,
                        IF attachments[attachment_id].task \in DOMAIN tasks
                        THEN tasks[attachments[attachment_id].task].project
                        ELSE 0,
                        attachment_id, file, "POST", "Saved")
    /\ UNCHANGED <<projects, members, tasks, nextProjectId, nextTaskId,
                   users, comments, notifications, nextCommentId,
                   nextAttachmentId, inflight>>

(* -------------------------- download_attachment ------------------------- *)

\* Response of download_attachment(request, attachment_id).  `onDisk` is
\* what os.path.exists(file_path) answers.  An attachment whose task row is
\* gone makes `attachment.task` raise.
download_attachment_result(rows, tsks, atts, u, attachment_id, onDisk) ==
    IF attachment_id \notin DOMAIN atts THEN "NotFound"
    ELSE IF atts[attachment_id].task \notin DOMAIN tsks THEN "ServerError"
    ELSE IF ~task_member_gate(rows, tsks[atts[attachment_id].task], u)
    THEN "NoAccess"
    ELSE IF ~onDisk THEN "FileMissing"
    ELSE "File"

DownloadAttachment(u, attachment_id, onDisk) ==
    /\ last' = Response("download_attachment", u,
                        IF /\ attachment_id \in DOMAIN attachments
                           /\ attachments[attachment_id].task \in DOMAIN tasks
                        THEN tasks[attachments[attachment_id].task].project
                        ELSE 0,
                        attachment_id, onDisk, "GET",
                        download_attachment_result(members, tasks, attachments,
                                                   u, attachment_id, onDisk))
    /\ UNCHANGED <<projects, members, tasks, nextProjectId, nextTaskId, others>>

(* ------------------------------ User.delete ----------------------------- *)

\* The user cascade mutated: assigned_to declared on_delete=CASCADE as well.
user_delete_tasks_cascade_assigned(tsks, v) ==
    [t \in {k \in DOMAIN tsks : tsks[k].created_by # v /\ tsks[k].assigned_to # v}
        |-> tsks[t]]

\* on_delete=SET_NULL of Task.assigned_to and on_delete=CASCADE of
\* Task.created_by: the task table left when user v is deleted.
user_delete_tasks(tsks, v) ==
    [t \in {k \in DOMAIN tsks : tsks[k].created_by # v} |->
        IF tsks[t].assigned_to = v
        THEN [tsks[t] EXCEPT !.assigned_to = NoUser]
        ELSE tsks[t]]

\* on_delete=CASCADE of a user column `col` of a table keyed by id, together
\* with the cascade from the deleted tasks `ids`.
user_delete_rows(rows, col, v, ids) ==
    [k \in {j \in DOMAIN rows : rows[j][col] # v /\ rows[j].task \notin ids}
        |-> rows[k]]

\* Deleting the auth user v: the rows that reference v follow their
\* on_delete rule.
DeleteUser(v) ==
    LET ids == {t \in DOMAIN tasks : tasks[t].created_by = v}
    IN  /\ v \in users
        /\ users' = users \ {v}
        /\ members' = {r \in members : r.user # v}
        /\ tasks' = user_delete_tasks(tasks, v)
        /\ comments' = user_delete_rows(comments, "author", v, ids)
        /\ attachments' = user_delete_rows(attachments, "uploaded_by", v, ids)
        /\ notifications' = {n \in notifications : n.user # v}
        /\ last' = Response("user_delete", NA, 0, v, NA, "POST", "Deleted")
        /\ UNCHANGED <<projects, nextProjectId, nextTaskId, nextCommentId,
                       nextAttachmentId, inflight>>

(* ------------------------------- Next ---------------------------------- *)

Next ==
    \/ \E u \in Users, p \in ProjectIds, t \in Users, m \in Methods :
          RemoveMember(u, p, t, m)
    \/ \E u \in Users, m \in Methods :
          \E d \in ProjectFormData(m) :
             \E f \in (IF ProjectForm_is_valid(d) THEN BOOLEAN ELSE {FALSE}) :
                ProjectCreate(u, m, d, f)
    \/ \E u \in Users, p \in ProjectIds, m \in Methods :
          \E d \in MemberFormData(m) : ManageMembers(u, p, m, d)
    \/ \E u \in Users, p \in ProjectIds, t \in Users, m \in Methods :
          \E d \in RoleFormData(m, t) : UpdateMemberRole(u, p, t, m, d)

Spec == Init /\ [][Next]_vars

(* ------------------------- the task views ------------------------------ *)

\* Member tables of project 1 for the task views: an admin, a manager or
\* member, and a member.
TaskSeedMemberTables ==
    {{[user |-> "u1", project |-> 1, role |-> "admin"],
      [user |-> "u2", project |-> 1, role |-> r],
      [user |-> "u3", project |-> 1, role |-> "member"]} :
        r \in {"manager", "member"}}

InitTasks ==
    /\ projects = (1 :> [status |-> "active"])
    /\ members \in TaskSeedMemberTables
    /\ nextProjectId = 2
    /\ tasks = << >>
    /\ nextTaskId = 1
    /\ NoTaskRows
    /\ last = [op |-> "init", user |-> NA, project |-> 0, target |-> NA,
               arg |-> NA, method |-> NA, result |-> NA,
               before |-> Tables(projects, members, tasks)]

NextTasks ==
    \/ \E u \in Users, p \in ProjectIds, m \in Methods :
          \E d \in TaskFormData(m) : TaskCreate(u, p, m, d)
    \/ \E u \in Users, t \in TaskIds, m \in Methods :
          \E d \in TaskFormData(m) : TaskUpdate(u, t, m, d)

SpecTasks == InitTasks /\ [][NextTasks]_vars

(* ------------------ the task views of a changing team ------------------ *)

\* The valid task-form posts, one for each assignee choice.
TeamFormData(method) ==
    {d \in TaskFormData(method) : d.status \in {NA, "todo"} /\ d.project = 0
                                  /\ (method = "POST" => d.titleLen = 1)}

NextTeam ==
    \/ \E u \in Users, p \in ProjectIds, m \in Methods :
          \E d \in TeamFormData(m) : TaskCreate(u, p, m, d)
    \/ \E u \in Users, t \in TaskIds, m \in Methods :
          \E d \in TeamFormData(m) : TaskUpdate(u, t, m, d)
    \/ \E u \in Users, t \in TaskIds, m \in Methods : TaskDelete(u, t, m)
    \/ \E u \in Users, p \in ProjectIds, t \in Users, m \in Methods :
          RemoveMember(u, p, t, m)

SpecTeam == InitTasks /\ [][NextTeam]_vars

(* ------------- comments, attachments and the read-only views ------------ *)

\* Project 1 with the member table `rows` and no task yet.
InitProject(rows) ==
    /\ projects = (1 :> [status |-> "active"])
    /\ members = rows
    /\ nextProjectId = 2
    /\ tasks = << >>
    /\ nextTaskId = 1
    /\ NoTaskRows
    /\ last = [op |-> "init", user |-> NA, project |-> 0, target |-> NA,
               arg |-> NA, method |-> NA, result |-> NA,
               before |-> Tables(projects, members, tasks)]

\* An admin and a plain member; u3 is not in the project.
InitViews ==
    InitProject({[user |-> "u1", project |-> 1, role |-> "admin"],
                 [user |-> "u2", project |-> 1, role |-> "member"]})

\* One valid task-form post without an assignee.
PlainTaskPost(method) ==
    {d \in TeamFormData(method) : d.assigned_to = NoUser}

\* The uploads with a name that has an extension, and no file.
ViewUploads(method) == {f \in Uploads(method) : f = NoFile \/ f.size = 2}

NextViews ==
    \/ \E u \in Users, p \in ProjectIds :
          \E d \in PlainTaskPost("POST") : TaskCreate(u, p, "POST", d)
    \/ \E u \in Users, t \in TaskIds :
          AddComment(u, t, "POST", [contentLen |-> 1])
    \/ \E u \in Users, t \in TaskIds :
          \E f \in ViewUploads("POST") \ {NoFile} : AddAttachment(u, t, "POST", f)
    \/ \E u \in Users : ProjectList(u)
    \/ \E u \in Users, p \in ProjectIds : ProjectDetail(u, p)
    \/ \E u \in Users, t \in TaskIds : TaskDetail(u, t)
    \/ \E u \in Users, a \in AttachmentIds, onDisk \in BOOLEAN :
          DownloadAttachment(u, a, onDisk)
    \/ \E p \in ProjectIds : RemoveMember("u1", p, "u2", "POST")

SpecViews == InitViews /\ [][NextViews]_vars

(* ---------------------- deletions and their cascades -------------------- *)

NextCascade ==
    \/ \E u \in Users, p \in ProjectIds :
          \E d \in PlainTaskPost("POST") : TaskCreate(u, p, "POST", d)
    \/ \E u \in Users, t \in TaskIds :
          AddComment(u, t, "POST", [contentLen |-> 1])
    \/ \E u \in Users, t \in TaskIds :
          \E f \in ViewUploads("POST") \ {NoFile} : AddAttachment(u, t, "POST", f)
    \/ \E u \in Users, t \in TaskIds, m \in Methods : TaskDelete(u, t, m)
    \/ \E u \in Users, p \in ProjectIds, m \in Methods : ProjectDelete(u, p, m)

SpecCascade == InitViews /\ [][NextCascade]_vars

(* -------------------- project_update / project_delete ------------------- *)

\* An admin, a manager or plain member; u3 is not in the project.
InitProjects ==
    \E r \in {"manager", "member"} :
        InitProject({[user |-> "u1", project |-> 1, role |-> "admin"],
                     [user |-> "u2", project |-> 1, role |-> r]})

NextProjects ==
    \/ \E u \in Users, p \in ProjectIds, m \in Methods :
          \E d \in ProjectFormData(m) : ProjectUpdate(u, p, m, d)
    \/ \E u \in Users, p \in ProjectIds, m \in Methods : ProjectDelete(u, p, m)
    \/ \E u \in Users, p \in ProjectIds, m \in Methods :
          \E d \in PlainTaskPost(m) : TaskCreate(u, p, m, d)

SpecProjects == InitProjects /\ [][NextProjects]_vars

(* ------------------------------ User.delete ----------------------------- *)

\* Requests come from users that exist.
NextUsers ==
    \/ \E v \in Users : DeleteUser(v)
    \/ \E u \in users \cap {"u1", "u2"}, p \in ProjectIds :
          \E d \in {e \in TeamFormData("POST") : e.assigned_to \in {NoUser, "u2"}} :
             TaskCreate(u, p, "POST", d)
    \/ \E u \in users \cap {"u1", "u2"}, t \in TaskIds :
          AddComment(u, t, "POST", [contentLen |-> 1])
    \/ \E u \in users \cap {"u1", "u2"}, t \in TaskIds :
          \E f \in ViewUploads("POST") \ {NoFile} : AddAttachment(u, t, "POST", f)

SpecUsers == InitViews /\ [][NextUsers]_vars

(* -------------------- membership requests side by side ----------------- *)

InitRace == \E rows \in SeedMemberTables : InitProject(rows)

NextRace ==
    \/ \E u \in Users, p \in ProjectIds, t \in Users, m \in Methods :
          RemoveMemberBegin(u, p, t, m)
    \/ \E q \in inflight : RemoveMemberFinish(q)
    \/ \E u \in Users, p \in ProjectIds, t \in Users :
          \E d \in RoleFormData("POST", t) : UpdateMemberRole(u, p, t, "POST", d)

SpecRace == InitRace /\ [][NextRace]_vars

(* --------------------------- attachment metadata ----------------------- *)

\* Uploads of 100 and of 200 bytes.
SizedUploads ==
    {[name |-> <<"report", "PDF">>, size |-> 100],
     [name |-> <<"notes">>, size |-> 200]}

\* Project 1 with its admin and one task.
InitFiles ==
    /\ projects = (1 :> [status |-> "active"])
    /\ members = {[user |-> "u1", project |-> 1, role |-> "admin"]}
    /\ nextProjectId = 2
    /\ tasks = (1 :> [project |-> 1, status |-> "todo", assigned_to |-> "u1",
                      created_by |-> "u1"])
    /\ nextTaskId = 2
    /\ NoTaskRows
    /\ last = [op |-> "init", user |-> NA, project |-> 0, target |-> NA,
               arg |-> NA, method |-> NA, result |-> NA,
               before |-> Tables(projects, members, tasks)]

NextFiles ==
    \/ \E u \in {"u1", "u2"}, f \in SizedUploads :
          AddAttachmentUpTo(MaxFiles, u, 1, "POST", f)
    \/ \E a \in 1..MaxFiles, f \in SizedUploads : ReplaceAttachmentFile(a, f)

SpecFiles == InitFiles /\ [][NextFiles]_vars

(* ---------------------------- Task.is_overdue --------------------------- *)

\* The days the overdue test is driven with: 0 .. MaxDay.
Days == 0..MaxDay

\* Project 1 with one task of any status, with any due date or none.
InitOverdue ==
    /\ projects = (1 :> [status |-> "active"])
    /\ members = {[user |-> "u1", project |-> 1, role |-> "admin"]}
    /\ nextProjectId = 2
    /\ \E s \in TaskStatuses, d \in Days \cup {NoDate} :
          tasks = (1 :> [project |-> 1, status |-> s, assigned_to |-> "u1",
                         created_by |-> "u1", due_date |-> d])
    /\ nextTaskId = 2
    /\ NoTaskRows
    /\ last = [op |-> "init", user |-> NA, project |-> 0, target |-> NA,
               arg |-> NA, method |-> NA, result |-> NA,
               before |-> Tables(projects, members, tasks)]

NextOverdue == \E t \in {1}, today \in Days : TaskIsOverdue(t, today)

SpecOverdue == InitOverdue /\ [][NextOverdue]_vars

(* ------------------------- task_detail navigation ----------------------- *)

\* The task ids the navigation is driven with.
NavIds == {3, 5, 7, 9}

\* Task tables with gaps in the ids, over two projects.
NavTaskTables ==
    UNION {[ids -> {[project |-> p, status |-> "todo", assigned_to |-> NoUser,
                     created_by |-> "u1"] : p \in {1, 2}}] : ids \in SUBSET NavIds}

\* Projects 1 and 2, u1 admin of both, u2 a member of project 1.
InitNav ==
    /\ projects = (1 :> [status |-> "active"]) @@ (2 :> [status |-> "active"])
    /\ members = {[user |-> "u1", project |-> 1, role |-> "admin"],
                  [user |-> "u1", project |-> 2, role |-> "admin"],
                  [user |-> "u2", project |-> 1, role |-> "member"]}
    /\ nextProjectId = 3
    /\ tasks \in NavTaskTables
    /\ nextTaskId = 10
    /\ NoTaskRows
    /\ last = [op |-> "init", user |-> NA, project |-> 0, target |-> NA,
               arg |-> NA, method |-> NA, result |-> NA,
               before |-> Tables(projects, members, tasks)]

NextNav == \E u \in {"u1", "u2"}, t \in NavIds : TaskDetail(u, t)

SpecNav == InitNav /\ [][NextNav]_vars


(* ===================== membership claims (Spec) ======================== *)

\* The member table the last request started from.
RowsBefore == last.before.members

\* The last request passed the admin gate of its view.
PassedAdminGate ==
    admin_gate(last.before.projects, RowsBefore, last.user, last.project) = "ok"

\* The last request named, as target, the only admin of its project.
TargetWasSoleAdmin ==
    /\ last.project \in DOMAIN last.before.projects
    /\ \E m \in MemberRows(RowsBefore, last.target, last.project) : m.role = "admin"
    /\ admin_count(RowsBefore, last.project) = 1

\* C1: whatever sequence of create_project, add_member, remove_member and
\* update_role requests has been handled, every existing project (each of
\* which started with an admin) has at least one member row with role admin.
C1_LastAdminInvariant ==
    \A p \in DOMAIN projects : admin_count(members, p) >= 1

\* C1 witness: an admin row was removed and the project still has an admin.
C1_Witness ==
    /\ last.op = "remove_member"
    /\ last.result = "Removed"
    /\ \E m \in MemberRows(RowsBefore, last.target, last.project) : m.role = "admin"
    /\ admin_count(members, last.project) >= 1

\* C2 (as claimed): a posted update_role by an admin that would turn the
\* project's only admin into a manager or member is answered with
\* LastAdminViolation and the target's stored role is still admin.
C2_SoleAdminDemotionRejected ==
    (/\ last.op = "update_role"
     /\ last.method = "POST"
     /\ PassedAdminGate
     /\ TargetWasSoleAdmin
     /\ last.arg \in {"manager", "member"})
    => /\ last.result = "LastAdminViolation"
       /\ members = RowsBefore

\* C3: remove_member by an admin whose target is the project's only admin is
\* answered with LastAdminViolation and every member row is left as it was.
C3_SoleAdminRemovalRejected ==
    (/\ last.op = "remove_member"
     /\ PassedAdminGate
     /\ TargetWasSoleAdmin)
    => /\ last.result = "LastAdminViolation"
       /\ members = RowsBefore

\* C3 witness: such a request was posted and rejected.
C3_Witness ==
    /\ last.op = "remove_member"
    /\ last.method = "POST"
    /\ PassedAdminGate
    /\ TargetWasSoleAdmin
    /\ last.result = "LastAdminViolation"
    /\ Cardinality(RowsBefore) >= 2

\* The last request was a remove_member of a member by that member.
SelfRemovalRequest ==
    /\ last.op = "remove_member"
    /\ last.target = last.user
    /\ last.project \in DOMAIN last.before.projects
    /\ MemberRows(RowsBefore, last.user, last.project) # {}

\* C4 (as claimed): remove_member of the requester by the requester is
\* answered with SelfRemovalViolation whatever the requester's role and the
\* number of admins, and the row is not deleted.
C4_SelfRemovalAlwaysSelfViolation ==
    SelfRemovalRequest
    => /\ last.result = "SelfRemovalViolation"
       /\ members = RowsBefore

\* C4 (amended): remove_member of the requester by the requester never
\* deletes the row; the answer is Forbidden for a manager or member,
\* LastAdminViolation for the only admin, and SelfRemovalViolation for an
\* admin of a project with two or more admins.
C4_SelfRemovalNeverDeletes ==
    SelfRemovalRequest
    => /\ members = RowsBefore
       /\ last.result =
            IF role_of(RowsBefore, last.user, last.project) # "admin"
            THEN "AdminOnly"
            ELSE IF admin_count(RowsBefore, last.project) <= 1
            THEN "LastAdminViolation"
            ELSE "SelfRemovalViolation"

\* C4 witness: an admin of a project with two admins posted their own removal.
C4_Witness ==
    /\ SelfRemovalRequest
    /\ last.method = "POST"
    /\ admin_count(RowsBefore, last.project) >= 2
    /\ last.result = "SelfRemovalViolation"

\* At most one member row per (project, user) pair.
UniqueTogether ==
    \A m1 \in members, m2 \in members :
        (m1.user = m2.user /\ m1.project = m2.project) => m1 = m2

\* The responses by which the add view reports an already existing pair: the
\* user is not among the form's choices, or the storage constraint refuses.
DuplicateMembership == {"FormInvalid", "IntegrityError"}

\* C5 (as claimed): there is at most one member row per (project, user), and
\* a posted add_member by an admin for a pair that exists is answered with
\* DuplicateMembership and leaves the tables as they were.
C5_DuplicateAddRejected ==
    /\ UniqueTogether
    /\ (/\ last.op = "add_member"
        /\ last.method = "POST"
        /\ PassedAdminGate
        /\ MemberRows(RowsBefore, last.target, last.project) # {})
       => /\ last.result \in DuplicateMembership
          /\ members = RowsBefore

\* C6 (as claimed): a posted add_member by an admin naming a user who is not
\* a member and a valid role adds exactly that row and changes no other.
C6_AddMemberSucceeds ==
    (/\ last.op = "add_member"
     /\ last.method = "POST"
     /\ PassedAdminGate
     /\ last.target \in Users
     /\ MemberRows(RowsBefore, last.target, last.project) = {}
     /\ last.arg \in Roles)
    => /\ last.result = "Added"
       /\ members = RowsBefore \cup {[user |-> last.target,
                                      project |-> last.project,
                                      role |-> last.arg]}

\* C7: create_project writes the project and the creator's admin row, or
\* neither: after a request whose member insert failed the tables are as
\* before, after a successful one both rows are there, and no project is
\* ever without a member row.
C7_CreateAllOrNothing ==
    /\ \A p \in DOMAIN projects : project_members(members, p) # {}
    /\ last.op = "project_create"
       => \/ /\ last.result # "Created"
             /\ projects = last.before.projects
             /\ members = RowsBefore
          \/ /\ last.result = "Created"
             /\ last.project \notin DOMAIN last.before.projects
             /\ DOMAIN projects = DOMAIN last.before.projects \cup {last.project}
             /\ [user |-> last.user, project |-> last.project, role |-> "admin"]
                   \in members

\* C7 witness: the member insert of a valid create_project failed.
C7_Witness ==
    /\ last.op = "project_create"
    /\ last.result = "ServerError"
    /\ projects = last.before.projects

\* C8 (as claimed): a successful create_project by U yields a new project
\* with status active whose only member row is (U, admin).
C8_CreatedProjectActive ==
    (last.op = "project_create" /\ last.result = "Created")
    => /\ projects[last.project].status = "active"
       /\ {m \in members : m.project = last.project}
             = {[user |-> last.user, project |-> last.project, role |-> "admin"]}

\* C8 (amended): a successful create_project by U yields a new project whose
\* status is the one posted with the form (active or archived) and whose only
\* member row is (U, admin).
C8_CreatedProjectPostedStatus ==
    (last.op = "project_create" /\ last.result = "Created")
    => /\ last.project \notin DOMAIN last.before.projects
       /\ projects[last.project].status = last.arg
       /\ last.arg \in ProjectStatuses
       /\ {m \in members : m.project = last.project}
             = {[user |-> last.user, project |-> last.project, role |-> "admin"]}

\* C8 witness: a project was created with the posted status archived.
C8_Witness ==
    /\ last.op = "project_create"
    /\ last.result = "Created"
    /\ projects[last.project].status = "archived"

\* The member-management requests.
MemberOps == {"add_member", "remove_member", "update_role"}

\* C9: a member-management request changes member rows only when its
\* requester held role admin in the project when it was made; from a manager,
\* a member or a non-member it is answered 403 and changes no member row.
C9_MemberOpsAdminOnly ==
    (last.op \in MemberOps /\ last.project \in DOMAIN last.before.projects)
    => /\ members # RowsBefore
          => \E m \in MemberRows(RowsBefore, last.user, last.project) :
                m.role = "admin"
       /\ (\A m \in MemberRows(RowsBefore, last.user, last.project) :
              m.role # "admin")
          => /\ last.result \in {"NoAccess", "AdminOnly"}
             /\ members = RowsBefore

\* C9 witness: a manager posted the removal of another member and was denied.
C9_Witness ==
    /\ last.op = "remove_member"
    /\ last.method = "POST"
    /\ last.target # last.user
    /\ MemberRows(RowsBefore, last.target, last.project) # {}
    /\ \E m \in MemberRows(RowsBefore, last.user, last.project) : m.role = "manager"
    /\ last.result = "AdminOnly"

(* ======================== task claims (SpecTasks) ====================== *)

\* The task the last task_update named, as it was before the request.
TaskBefore == last.before.tasks[last.target]

\* The last request was a task_update of an existing task by a member of the
\* task's project.
UpdateByMember ==
    /\ last.op = "task_update"
    /\ last.target \in DOMAIN last.before.tasks
    /\ last.user \in project_members(RowsBefore, TaskBefore.project)

\* The edit rule of the specification.
EditAllowed ==
    \/ role_of(RowsBefore, last.user, TaskBefore.project) \in {"admin", "manager"}
    \/ last.user = TaskBefore.created_by
    \/ last.user = TaskBefore.assigned_to

\* C10: for a requester who is a member of the task's project, update_task
\* is let through iff the requester's role is admin or manager, or the
\* requester is the task's created_by or its assigned_to; otherwise it is
\* answered 403 and the task is unchanged.
C10_UpdateTaskRule ==
    UpdateByMember
    => /\ (last.result \in {"Updated", "FormPage", "FormInvalid"}) <=> EditAllowed
       /\ ~EditAllowed => (last.result = "NoPermission" /\ tasks = last.before.tasks)
       /\ (EditAllowed /\ last.method = "POST" /\ last.result # "FormInvalid")
             => last.result = "Updated"

\* C10 witness: a plain member who is the assignee but not the creator posted
\* an update of the task and it was saved.
C10_Witness ==
    /\ UpdateByMember
    /\ role_of(RowsBefore, last.user, TaskBefore.project) = "member"
    /\ last.user # TaskBefore.created_by
    /\ last.user = TaskBefore.assigned_to
    /\ last.result = "Updated"
    /\ tasks # last.before.tasks

\* C10 second witness: a plain member who is neither creator nor assignee
\* posted an update and was denied.
C10_WitnessDenied ==
    /\ UpdateByMember
    /\ last.method = "POST"
    /\ ~EditAllowed
    /\ last.result = "NoPermission"

(* ------------------------------ C11 .. C20 ------------------------------ *)

\* The last request named a task that existed, and the requester was a
\* member of that task's project.
TaskRequestByMember(op) ==
    /\ last.op = op
    /\ last.target \in DOMAIN last.before.tasks
    /\ last.user \in project_members(RowsBefore, TaskBefore.project)

\* The delete rule of the specification.
DeleteAllowed ==
    \/ role_of(RowsBefore, last.user, TaskBefore.project) \in {"admin", "manager"}
    \/ last.user = TaskBefore.created_by

\* A valid post of the task form that keeps the task's assignee.
KeepAssigneePost ==
    [project |-> 0, status |-> "todo", titleLen |-> 1,
     assigned_to |-> TaskBefore.assigned_to]

\* C11: for a requester who is a member of the task's project, delete_task
\* is let through iff the requester's role is admin or manager or the
\* requester is the task's created_by; a posted delete that is let through
\* removes the task; a refused one is answered 403 and the task still
\* exists, and where the refused requester is the task's assignee an
\* update_task of theirs on the same tables is saved.
C11_DeleteTaskRule ==
    TaskRequestByMember("task_delete")
    => /\ (last.result \in {"Deleted", "ConfirmPage"}) <=> DeleteAllowed
       /\ (DeleteAllowed /\ last.method = "POST")
             => (last.result = "Deleted" /\ last.target \notin DOMAIN tasks)
       /\ ~DeleteAllowed
             => /\ last.result = "NoPermission"
                /\ tasks = last.before.tasks
                /\ last.target \in DOMAIN tasks
                /\ last.user = TaskBefore.assigned_to
                      => task_update_run(RowsBefore, last.before.tasks,
                                         last.user, last.target, "POST",
                                         KeepAssigneePost).result = "Updated"

\* C11 witness: a plain member who is the assignee of a task somebody else
\* created posted its deletion, was refused, and the task is still there.
C11_Witness ==
    /\ TaskRequestByMember("task_delete")
    /\ last.method = "POST"
    /\ role_of(RowsBefore, last.user, TaskBefore.project) = "member"
    /\ last.user = TaskBefore.assigned_to
    /\ last.user # TaskBefore.created_by
    /\ last.result = "NoPermission"
    /\ last.target \in DOMAIN tasks

\* C11 second witness: a plain member deleted the task they created.
C11_WitnessCreator ==
    /\ TaskRequestByMember("task_delete")
    /\ role_of(RowsBefore, last.user, TaskBefore.project) = "member"
    /\ last.user = TaskBefore.created_by
    /\ last.result = "Deleted"
    /\ last.target \notin DOMAIN tasks

\* The last request was an update or a delete of an existing task by a user
\* who was not a member of the task's project.
TaskRequestByOutsider ==
    /\ last.op \in {"task_update", "task_delete"}
    /\ last.target \in DOMAIN last.before.tasks
    /\ last.user \notin project_members(RowsBefore, TaskBefore.project)

\* C12: update_task and delete_task of a task by a user who is not a member
\* of the task's project are answered with the 403 of the membership test,
\* whoever created the task and whoever it is assigned to, and the task
\* tables are as before.
C12_OutsiderDenied ==
    TaskRequestByOutsider
    => /\ last.result = "NoAccess"
       /\ tasks = last.before.tasks
       /\ comments = last.before.comments
       /\ attachments = last.before.attachments

\* C12 witness: the creator of a task, removed from the project since, posted
\* a deletion of the task and was refused.
C12_Witness ==
    /\ TaskRequestByOutsider
    /\ last.op = "task_delete"
    /\ last.method = "POST"
    /\ last.user = TaskBefore.created_by
    /\ last.result = "NoAccess"
    /\ last.target \in DOMAIN tasks

\* C12 second witness: the assignee of a task, removed from the project
\* since, posted an update of the task and was refused.
C12_WitnessAssignee ==
    /\ TaskRequestByOutsider
    /\ last.op = "task_update"
    /\ last.method = "POST"
    /\ last.user = TaskBefore.assigned_to
    /\ last.user # TaskBefore.created_by
    /\ last.result = "NoAccess"

\* C15: task_create by a user who is not a member of the project is answered
\* with the 403 of the membership test and no task is created; a task created
\* by a member has the requested project, the requester as created_by, and
\* the requester as assigned_to when the post names no assignee, else the
\* posted assignee.
C15_CreateTask ==
    (last.op = "task_create" /\ last.project \in DOMAIN last.before.projects)
    => /\ last.user \notin project_members(RowsBefore, last.project)
             => /\ last.result = "NoAccess"
                /\ tasks = last.before.tasks
       /\ last.result = "Created"
             => /\ last.user \in project_members(RowsBefore, last.project)
                /\ DOMAIN tasks = DOMAIN last.before.tasks \cup {last.target}
                /\ last.target \notin DOMAIN last.before.tasks
                /\ tasks[last.target].project = last.project
                /\ tasks[last.target].created_by = last.user
                /\ tasks[last.target].assigned_to =
                      IF last.arg.assigned_to = NoUser THEN last.user
                      ELSE last.arg.assigned_to

\* C15 witness: a member posted a task without an assignee and it was saved
\* with the member as assignee.
C15_Witness ==
    /\ last.op = "task_create"
    /\ last.result = "Created"
    /\ last.arg.assigned_to = NoUser
    /\ tasks[last.target].assigned_to = last.user

\* C15 second witness: a user removed from the project posted a task and was
\* refused.
C15_WitnessOutsider ==
    /\ last.op = "task_create"
    /\ last.method = "POST"
    /\ last.project \in DOMAIN last.before.projects
    /\ last.user \notin project_members(RowsBefore, last.project)
    /\ last.result = "NoAccess"

\* The last request was a task_update that posted a project other than the
\* task's own, by a user task_update lets edit the task.
ProjectChangeAttempt ==
    /\ UpdateByMember
    /\ EditAllowed
    /\ last.method = "POST"
    /\ last.arg.project \notin {0, TaskBefore.project}

\* C16 as stated: a task_update that posts another project is rejected.
C16_ProjectChangeRejected ==
    ProjectChangeAttempt => last.result \notin {"Updated"}

\* C16: no request changes the project or the created_by of an existing
\* task; a task_update that posts another project together with a valid form
\* is saved with the posted project ignored.
C16_ProjectImmutable ==
    /\ \A t \in DOMAIN tasks \cap DOMAIN last.before.tasks :
          /\ tasks[t].project = last.before.tasks[t].project
          /\ tasks[t].created_by = last.before.tasks[t].created_by
    /\ ProjectChangeAttempt
          => /\ last.result = "Updated"
             /\ tasks[last.target].status = last.arg.status

\* C16 witness: an update that posted another project was saved and the task
\* is still in its project.
C16_Witness ==
    /\ ProjectChangeAttempt
    /\ last.result = "Updated"
    /\ tasks[last.target].project = TaskBefore.project
    /\ tasks[last.target].project # last.arg.project

\* The project the resource named by the last view request belongs to.
ResourceProject ==
    IF last.op = "project_detail" THEN last.project
    ELSE IF last.op = "download_attachment"
    THEN last.before.tasks[last.before.attachments[last.target].task].project
    ELSE TaskBefore.project

\* The last request was one of the member-only views, for a resource that
\* exists.
ViewRequest ==
    \/ last.op = "project_detail" /\ last.project \in DOMAIN last.before.projects
    \/ /\ last.op \in {"task_detail", "add_comment", "add_attachment"}
       /\ last.target \in DOMAIN last.before.tasks
    \/ /\ last.op = "download_attachment"
       /\ last.target \in DOMAIN last.before.attachments

\* The answers of the member-only views that let the requester in.
ViewGranted == {"Page", "Added", "File", "FileMissing"}

\* C13: project_detail, task_detail, add_comment, add_attachment and
\* download_attachment let the requester in iff the requester is, at the time
\* of the request, a member of the project the resource belongs to; a
\* refused request is answered 403 and adds no row; project_list lists
\* exactly the projects the requester is a member of.
C13_ViewIffMember ==
    /\ ViewRequest
          => /\ (last.result \in ViewGranted)
                   <=> MemberRows(RowsBefore, last.user, ResourceProject) # {}
             /\ MemberRows(RowsBefore, last.user, ResourceProject) = {}
                   => /\ last.result = "NoAccess"
                      /\ comments = last.before.comments
                      /\ attachments = last.before.attachments
    /\ last.op = "project_list"
          => \A p \in ProjectIds :
                p \in last.arg <=> /\ p \in DOMAIN last.before.projects
                                   /\ MemberRows(RowsBefore, last.user, p) # {}

\* C13 witness: a user removed from the project posted a comment on a task
\* of the project they had created, and was refused.
C13_Witness ==
    /\ ViewRequest
    /\ last.op = "add_comment"
    /\ last.user = TaskBefore.created_by
    /\ MemberRows(RowsBefore, last.user, ResourceProject) = {}
    /\ last.result = "NoAccess"

\* C13 second witness: a member downloaded an attachment.
C13_WitnessDownload ==
    /\ ViewRequest
    /\ last.op = "download_attachment"
    /\ last.result = "File"

\* C13 third witness: a user outside every project got an empty listing
\* while a project exists.
C13_WitnessList ==
    /\ last.op = "project_list"
    /\ last.arg = {}
    /\ DOMAIN last.before.projects # {}

\* The last request was a project_update or project_delete of an existing
\* project.
ProjectRequest ==
    /\ last.op \in {"project_update", "project_delete"}
    /\ last.project \in DOMAIN last.before.projects

\* The requester of the last request held the admin role in its project.
RequesterIsAdmin ==
    \E r \in MemberRows(RowsBefore, last.user, last.project) : r.role = "admin"

\* C14: project_update and project_delete of an existing project go through
\* only for a requester whose role in the project is admin: a posted valid
\* update of theirs is saved and a posted delete removes the project; for a
\* manager, a plain member or a non-member the request is answered 403 and
\* the project, its member rows and its tasks are as before.
C14_ProjectAdminOnly ==
    ProjectRequest
    => /\ (last.result \in {"Updated", "Deleted", "FormPage", "FormInvalid",
                            "ConfirmPage"}) <=> RequesterIsAdmin
       /\ ~RequesterIsAdmin
             => /\ last.result \in {"NoAccess", "AdminOnly"}
                /\ projects = last.before.projects
                /\ members = last.before.members
                /\ tasks = last.before.tasks
       /\ (RequesterIsAdmin /\ last.method = "POST" /\ last.op = "project_delete")
             => (last.result = "Deleted" /\ last.project \notin DOMAIN projects)
       /\ (RequesterIsAdmin /\ last.result = "Updated")
             => projects[last.project].status = last.arg.status

\* C14 witness: a manager posted the deletion of a project that has a task,
\* and was refused.
C14_Witness ==
    /\ ProjectRequest
    /\ last.op = "project_delete"
    /\ last.method = "POST"
    /\ \E r \in MemberRows(RowsBefore, last.user, last.project) : r.role = "manager"
    /\ last.result = "AdminOnly"
    /\ project_tasks(tasks, last.project) # {}

\* C14 second witness: an admin changed the status of a project.
C14_WitnessUpdate ==
    /\ ProjectRequest
    /\ last.result = "Updated"
    /\ projects[last.project].status # last.before.projects[last.project].status

\* C17 as stated: a task_create on an archived project creates no task, and
\* an admin's posted valid status change is saved in both directions.
C17_ArchivedRejectsCreate ==
    /\ (/\ last.op = "task_create"
        /\ last.project \in DOMAIN last.before.projects
        /\ last.before.projects[last.project].status = "archived")
          => (last.result # "Created" /\ tasks = last.before.tasks)
    /\ (/\ ProjectRequest
        /\ last.op = "project_update"
        /\ RequesterIsAdmin
        /\ last.method = "POST"
        /\ ProjectForm_is_valid(last.arg))
          => (last.result = "Updated"
              /\ projects[last.project].status = last.arg.status)

\* C18: every member row and every task references an existing project, and
\* every comment and every attachment references an existing task; a deleted
\* project leaves no member row and no task of its own, a deleted task no
\* comment and no attachment of its own.
C18_ReferentialIntegrity ==
    /\ \A r \in members : r.project \in DOMAIN projects
    /\ \A t \in DOMAIN tasks : tasks[t].project \in DOMAIN projects
    /\ \A c \in DOMAIN comments : comments[c].task \in DOMAIN tasks
    /\ \A a \in DOMAIN attachments : attachments[a].task \in DOMAIN tasks

\* C18 witness: a project with a task that had a comment and an attachment
\* was deleted.
C18_Witness ==
    /\ last.op = "project_delete"
    /\ last.result = "Deleted"
    /\ \E t \in project_tasks(last.before.tasks, last.project) :
          /\ \E c \in DOMAIN last.before.comments :
                last.before.comments[c].task = t
          /\ \E a \in DOMAIN last.before.attachments :
                last.before.attachments[a].task = t
    /\ last.project \notin DOMAIN projects

\* C18 second witness: a task with a comment and an attachment was deleted.
C18_WitnessTask ==
    /\ last.op = "task_delete"
    /\ last.result = "Deleted"
    /\ \E c \in DOMAIN last.before.comments :
          last.before.comments[c].task = last.target
    /\ \E a \in DOMAIN last.before.attachments :
          last.before.attachments[a].task = last.target
    /\ last.target \notin DOMAIN tasks

\* C19: after the deletion of a user no member row, comment, attachment or
\* created task of that user is left; every task somebody else created is
\* still there, with assigned_to null where the user was the assignee and
\* otherwise as before, and with the comments and attachments of the other
\* users.
C19_UserDeleteCascade ==
    last.op = "user_delete"
    => LET v == last.target
           old == last.before
           kept == {t \in DOMAIN old.tasks : old.tasks[t].created_by # v}
       IN  /\ v \notin users
           /\ \A r \in members : r.user # v
           /\ members = {r \in old.members : r.user # v}
           /\ \A c \in DOMAIN comments : comments[c].author # v
           /\ \A a \in DOMAIN attachments : attachments[a].uploaded_by # v
           /\ DOMAIN tasks = kept
           /\ \A t \in kept :
                 tasks[t] = IF old.tasks[t].assigned_to = v
                            THEN [old.tasks[t] EXCEPT !.assigned_to = NoUser]
                            ELSE old.tasks[t]
           /\ \A c \in DOMAIN old.comments :
                 (old.comments[c].author # v /\ old.comments[c].task \in kept)
                    => (c \in DOMAIN comments /\ comments[c] = old.comments[c])
           /\ \A a \in DOMAIN old.attachments :
                 (old.attachments[a].uploaded_by # v
                    /\ old.attachments[a].task \in kept)
                    => (a \in DOMAIN attachments
                        /\ attachments[a] = old.attachments[a])

\* C19 witness: the deleted user was the assignee of a task somebody else
\* created and had commented on it; the task is still there, unassigned, and
\* the comment is gone.
C19_Witness ==
    /\ last.op = "user_delete"
    /\ \E t \in DOMAIN last.before.tasks :
          /\ last.before.tasks[t].assigned_to = last.target
          /\ last.before.tasks[t].created_by # last.target
          /\ \E c \in DOMAIN last.before.comments :
                /\ last.before.comments[c].task = t
                /\ last.before.comments[c].author = last.target
          /\ t \in DOMAIN tasks
          /\ tasks[t].assigned_to = NoUser
    /\ comments = << >>

\* C19 second witness: the deleted user had created a task that carried
\* another user's attachment; both are gone.
C19_WitnessCreator ==
    /\ last.op = "user_delete"
    /\ \E t \in DOMAIN last.before.tasks :
          /\ last.before.tasks[t].created_by = last.target
          /\ \E a \in DOMAIN last.before.attachments :
                /\ last.before.attachments[a].task = t
                /\ last.before.attachments[a].uploaded_by # last.target
          /\ t \notin DOMAIN tasks
    /\ attachments = << >>

\* C20 as stated: a saved comment, a saved new task and a saved update that
\* names an assignee each leave a new Notification row.
C20_NotificationCreated ==
    (\/ last.op = "add_comment" /\ last.result = "Added"
     \/ last.op = "task_create" /\ last.result = "Created"
     \/ /\ last.op = "task_update"
        /\ last.result = "Updated"
        /\ last.arg.assigned_to # NoUser)
    => notifications \ last.before.notifications # {}

(* ------------------------------ C21 .. C30 ------------------------------ *)

\* C21 as stated: project_detail of an existing project and task_detail of
\* an existing task, requested by a user who is not a member, are answered as
\* the same view answers that user for an id that does not exist.
C21_NonMemberSeesNotFound ==
    /\ (/\ last.op = "project_detail"
        /\ last.project \in DOMAIN last.before.projects
        /\ MemberRows(RowsBefore, last.user, last.project) = {})
          => last.result = project_detail_result(last.before.projects,
                                                 RowsBefore, last.user, 0)
    /\ (/\ last.op = "task_detail"
        /\ last.target \in DOMAIN last.before.tasks
        /\ MemberRows(RowsBefore, last.user, TaskBefore.project) = {})
          => last.result = task_detail_result(RowsBefore, last.before.tasks,
                                              last.user, 0)

\* C26 as stated: a posted update_role by an admin that gives another member
\* a valid role is saved, and changes the role of that member row and
\* nothing else.
C26_UpdateRoleChangesOnlyRole ==
    (/\ last.op = "update_role"
     /\ last.method = "POST"
     /\ PassedAdminGate
     /\ last.target # last.user
     /\ MemberRows(RowsBefore, last.target, last.project) # {}
     /\ last.arg \in Roles)
    => /\ last.result = "Updated"
       /\ members = (RowsBefore \ MemberRows(RowsBefore, last.target, last.project))
                       \cup {[user |-> last.target, project |-> last.project,
                               role |-> last.arg]}

\* C27: a remove_member answered with the last-admin rejection had the
\* requester as its target; where the target is an admin other than the
\* requester the project has at least two admins; and after a removal the
\* requester is still an admin of the project.
C27_LastAdminOnlySelf ==
    (last.op = "remove_member" /\ PassedAdminGate)
    => /\ last.result = "LastAdminViolation" => last.target = last.user
       /\ (/\ last.target # last.user
           /\ \E m \in MemberRows(RowsBefore, last.target, last.project) :
                 m.role = "admin")
             => admin_count(RowsBefore, last.project) >= 2
       /\ last.result = "Removed"
             => \E m \in MemberRows(members, last.user, last.project) :
                   m.role = "admin"

\* C27 witness: the only admin asked for their own removal and got the
\* last-admin rejection.
C27_Witness ==
    /\ last.op = "remove_member"
    /\ PassedAdminGate
    /\ last.result = "LastAdminViolation"
    /\ last.target = last.user

\* C27 second witness: an admin removed another admin.
C27_WitnessOtherAdmin ==
    /\ last.op = "remove_member"
    /\ last.result = "Removed"
    /\ \E m \in MemberRows(RowsBefore, last.target, last.project) : m.role = "admin"
    /\ admin_count(members, last.project) >= 1

\* C28 as stated: the assignee of every task is null or a member of the
\* task's project.
C28_AssigneeIsMember ==
    \A t \in DOMAIN tasks :
        \/ tasks[t].assigned_to = NoUser
        \/ MemberRows(members, tasks[t].assigned_to, tasks[t].project) # {}

\* C29 as stated: after the deletion of a user every project that had an
\* admin has one.
C29_AdminSurvivesUserDelete ==
    last.op = "user_delete"
    => \A p \in DOMAIN projects :
          admin_count(RowsBefore, p) >= 1 => admin_count(members, p) >= 1

\* The member table `rows` with user u holding role r in project p.
WithRole(rows, u, p, r) ==
    (rows \ MemberRows(rows, u, p)) \cup {[user |-> u, project |-> p, role |-> r]}

\* The answers that refuse the requester for who they are.
Refusals == {"NoAccess", "AdminOnly", "NoPermission"}

\* A function from roles to answers is nested: let through as member implies
\* let through as manager implies let through as admin.
Nested(answer) ==
    /\ answer["member"] \notin Refusals => answer["manager"] \notin Refusals
    /\ answer["manager"] \notin Refusals => answer["admin"] \notin Refusals

\* The answer to the last request, had the requester held role r in the
\* project of the request, on the tables the request started from.
LastAnswerAs(r) ==
    LET old == last.before
        p == IF last.op \in {"task_update", "task_delete"}
             THEN TaskBefore.project ELSE last.project
        rows == WithRole(old.members, last.user, p, r)
    IN  IF last.op = "task_update"
        THEN task_update_run(rows, old.tasks, last.user, last.target,
                             last.method, last.arg).result
        ELSE IF last.op = "task_delete"
        THEN task_delete_result(rows, old.tasks, last.user, last.target,
                                last.method)
        ELSE IF last.op = "task_create"
        THEN task_create_run(old.projects, rows, last.user, last.project,
                             last.method, last.arg).result
        ELSE remove_member_result(old.projects, rows, last.user, last.project,
                                  last.target, last.method)

\* The last request named an existing task or project.
RequestOnExisting ==
    \/ /\ last.op \in {"task_update", "task_delete"}
       /\ last.target \in DOMAIN last.before.tasks
    \/ /\ last.op \in {"task_create", "remove_member"}
       /\ last.project \in DOMAIN last.before.projects

\* C30: for every task_create, task_update, task_delete and remove_member
\* request, on the tables it started from and with the task and its creator
\* and assignee as they were, being let through with role member implies
\* being let through with role manager, and that implies being let through
\* with role admin; the same holds for every project_update and
\* project_delete request on the current tables.
C30_RolesNested ==
    /\ RequestOnExisting => Nested([r \in Roles |-> LastAnswerAs(r)])
    /\ \A u \in Users, p \in DOMAIN projects, m \in Methods :
          /\ \A d \in ProjectFormData(m) :
                Nested([r \in Roles |->
                          project_update_run(projects, WithRole(members, u, p, r),
                                             u, p, m, d).result])
          /\ Nested([r \in Roles |->
                       project_delete_result(projects, WithRole(members, u, p, r),
                                             u, p, m)])

\* C30 witness: a plain member who did not create the task was refused its
\* deletion, which the same user would have been let through as manager and
\* as admin.
C30_Witness ==
    /\ TaskRequestByMember("task_delete")
    /\ role_of(RowsBefore, last.user, TaskBefore.project) = "member"
    /\ last.result = "NoPermission"
    /\ LastAnswerAs("member") = "NoPermission"
    /\ LastAnswerAs("manager") \notin Refusals
    /\ LastAnswerAs("admin") \notin Refusals

\* The task and the day of the last overdue test.
OverdueTask == last.before.tasks[last.target]

\* C23: is_overdue answers true iff the task has a due date and that date
\* is before the day of the test: a due date of the day before gives true, of
\* the same day or the day after false, no due date false; and the answer is
\* the same whatever the task's status.
C23_OverdueRule ==
    last.op = "is_overdue"
    => LET due == OverdueTask.due_date
           today == last.arg
       IN  /\ last.result \in {"True", "False"}
           /\ last.result = "True" <=> (due # NoDate /\ due < today)
           /\ (due # NoDate /\ due = today - 1) => last.result = "True"
           /\ due \in {today, today + 1} => last.result = "False"
           /\ due = NoDate => last.result = "False"
           /\ \A s \in TaskStatuses :
                 str_bool(is_overdue([OverdueTask EXCEPT !.status = s], today))
                    = last.result

\* C23 witness: a task that is done and was due the day before is overdue.
C23_Witness ==
    /\ last.op = "is_overdue"
    /\ OverdueTask.status = "done"
    /\ OverdueTask.due_date # NoDate
    /\ OverdueTask.due_date = last.arg - 1
    /\ last.result = "True"

\* C23 second witness: a task due on the day of the test is not overdue.
C23_WitnessToday ==
    /\ last.op = "is_overdue"
    /\ OverdueTask.due_date = last.arg
    /\ last.result = "False"

\* The tasks of the project of the task the last task_detail showed.
NavSiblings ==
    {t \in DOMAIN last.before.tasks :
        last.before.tasks[t].project = TaskBefore.project}

\* C24: the previous_task of a rendered task_detail is the task of the same
\* project with the greatest id below the shown task's id, its next_task the
\* one with the least id above, and None where there is no such task; a task
\* of another project is never named.
C24_Navigation ==
    (last.op = "task_detail" /\ last.result = "Page")
    => LET prev == last.arg.previous_task
           next == last.arg.next_task
       IN  /\ prev = NoTask <=> ~ \E t \in NavSiblings : t < last.target
           /\ prev # NoTask
                 => /\ prev \in NavSiblings
                    /\ prev < last.target
                    /\ ~ \E t \in NavSiblings : prev < t /\ t < last.target
           /\ next = NoTask <=> ~ \E t \in NavSiblings : t > last.target
           /\ next # NoTask
                 => /\ next \in NavSiblings
                    /\ next > last.target
                    /\ ~ \E t \in NavSiblings : last.target < t /\ t < next

\* C24 witness: tasks 3, 7 and 9 in one project and task 5 in another; from
\* task 7 the previous task is 3 and the next is 9.
C24_Witness ==
    /\ last.op = "task_detail"
    /\ last.result = "Page"
    /\ last.target = 7
    /\ NavSiblings = {3, 7, 9}
    /\ 5 \in DOMAIN last.before.tasks
    /\ last.arg.previous_task = 3
    /\ last.arg.next_task = 9

\* C24 second witness: from task 9, the last of tasks 3, 7 and 9, the
\* previous task is 7 and there is no next task.
C24_WitnessEnds ==
    /\ last.op = "task_detail"
    /\ last.result = "Page"
    /\ last.target = 9
    /\ NavSiblings = {3, 7, 9}
    /\ last.arg.previous_task = 7
    /\ last.arg.next_task = NoTask

\* The attachment rows that were not there before the last request.
NewAttachments == DOMAIN attachments \ DOMAIN last.before.attachments

\* Attachment a carries the same file_name, file_type and file_size as
\* before the last request.
SameMetadata(a) ==
    /\ attachments[a].file_name = last.before.attachments[a].file_name
    /\ attachments[a].file_type = last.before.attachments[a].file_type
    /\ attachments[a].file_size = last.before.attachments[a].file_size

\* C22: a saved add_attachment leaves one new attachment whose file_name and
\* file_size are the uploaded file's name and size and whose file_type is
\* the lower-cased extension of the name ('unknown' without one); every
\* attachment that was there before a request, also one saved again with
\* another file, keeps its file_name, file_type and file_size.
C22_MetadataSetOnce ==
    /\ (last.op = "add_attachment" /\ last.result = "Added")
          => /\ Cardinality(NewAttachments) = 1
             /\ \A a \in NewAttachments :
                   /\ attachments[a].file_name = last.arg.name
                   /\ attachments[a].file_size = last.arg.size
                   /\ last.arg.name = <<"report", "PDF">>
                         => attachments[a].file_type = "pdf"
                   /\ Len(last.arg.name) = 1
                         => attachments[a].file_type = "unknown"
    /\ \A a \in DOMAIN attachments \cap DOMAIN last.before.attachments :
          SameMetadata(a)
    /\ last.op = "attachment_resave" => attachments[last.target].file = last.arg

\* C22 witness: uploads of 100 and 200 bytes were saved, the first was saved
\* again with the 200-byte file, and the sizes on record are 100 and 200.
C22_Witness ==
    /\ last.op = "attachment_resave"
    /\ last.target = 1
    /\ 2 \in DOMAIN attachments
    /\ attachments[1].file.size = 200
    /\ attachments[1].file_size = 100
    /\ attachments[1].file_type = "pdf"
    /\ attachments[2].file_size = 200
    /\ attachments[2].file_type = "unknown"

\* C25 as stated: once the membership requests in flight have completed,
\* every project has at least one admin.
C25_AdminSurvivesInterleaving ==
    inflight = {} => \A p \in DOMAIN projects : admin_count(members, p) >= 1

=============================================================================
